---- MODULE Spec2Model ----
(***************************************************************************)
(* State-machine model of the refactoring agent:                           *)
(*   - ObservableGemRefactorRunner.run_gem_refactor_plan and its helpers   *)
(*     (src/refactoring_agent/gem_refactor_runner.py), and                 *)
(*   - RefactoringAgent.execute_refactoring_task with                      *)
(*     _parse_and_execute_action (src/refactoring_agent/agent_system.py).  *)
(* The program is single-threaded asyncio code: the runner awaits each     *)
(* task, the task awaits each model call.  The actions below cut that one  *)
(* sequential control flow at the model call, at the parse/dispatch and at *)
(* the bookkeeping that follows each of them.                              *)
(***************************************************************************)
EXTENDS Integers, Sequences, FiniteSets, TLC

VARIABLES
    tasks,            \* the plan as declared (argument `tasks`)
    dry_run,          \* argument `dry_run`
    workspace,        \* what the file system holds at self.workspace_dir
    rpc,              \* position of run_gem_refactor_plan
    sorted_tasks,     \* local `sorted_tasks`
    idx,              \* 1-based position of `for task in sorted_tasks`
    results,          \* local `results`
    successful_tasks, \* local `successful_tasks`
    skipped,          \* the skip notices printed so far (task types)
    visited,          \* the loop bodies entered so far (task types, in order)
    summary,          \* the summary handed to _save_results / returned
    saved,            \* the report files written so far
    apc,              \* position of execute_refactoring_task
    messages,         \* local `messages`
    actions_taken,    \* local `actions_taken`
    iteration,        \* loop variable `iteration`
    ai_response,      \* local `ai_response`
    action_result,    \* local `action_result`
    task_result,      \* the value execute_refactoring_task returns
    exception,        \* str(e) of the exception on its way to the handler
    model_calls,      \* calls of client...create made by the running task
    disk,             \* what this run last wrote to lib/observable.rb
    cwd,              \* the working directory of the process (os.getcwd())
    fuel,             \* replies the provider will still give in this run
    odd               \* unusual non-final replies/tool failures seen so far

vars == <<tasks, dry_run, workspace, rpc, sorted_tasks, idx, results,
          successful_tasks, skipped, visited, summary, saved, apc, messages,
          actions_taken, iteration, ai_response, action_result, task_result,
          exception, model_calls, disk, cwd, fuel, odd>>

runnerVars == <<rpc, sorted_tasks, idx, results, successful_tasks, skipped,
                visited, summary, saved>>
agentVars  == <<apc, messages, actions_taken, iteration, ai_response,
                action_result, task_result, exception, model_calls>>
inputVars  == <<tasks, dry_run, workspace>>
envVars    == <<disk, cwd>>

----------------------------------------------------------------------------
(* Bounds of the explored input space. *)

\* longest plan handed to run_gem_refactor_plan
MaxTasks == 2
\* priorities are drawn from 1..MaxPriority
MaxPriority == 2
\* total number of declared dependencies in a plan
MaxDeps == 2
\* provider replies available to a plan of several tasks
MaxCalls == 2
\* unusual non-final replies and tool failures in one run
MaxOdd == 1

(* Program constant: max_iterations of execute_refactoring_task. *)
max_iterations == 15

\* a key that a Python dict does not hold
NoKey == "<no key>"
\* Python's None
None == "<None>"

----------------------------------------------------------------------------
(* The plan: GemRefactorTask records. *)

\* task types, in the order of get_default_gem_refactor_plan
TypeNames ==
    <<"architecture", "performance", "code_smells", "idiomatic",
      "error_handling", "testing", "understandability", "duplication">>
TypeName(i) == TypeNames[i]
TaskTypes == {TypeName(i) : i \in 1..MaxTasks}

GemRefactorTask(type, prio, deps) ==
    [task_type |-> type, priority |-> prio, dependencies |-> deps]

RECURSIVE SumCard(_, _)
SumCard(f, n) == IF n = 0 THEN 0 ELSE Cardinality(f[n]) + SumCard(f, n - 1)

\* Only the relative order of the priorities matters to sorted(): the plans
\* use the priorities 1..k for some k, each of them at least once.
UsesInitialSegment(p, n) ==
    \A v \in 1..MaxPriority :
        (\E i \in 1..n : p[i] = v) \/ (\A i \in 1..n : p[i] < v)

\* Plans of n tasks: the i-th declared task has type TypeName(i); it may
\* depend on any other type, also on one that the plan does not hold.
Plans(n) ==
    { [i \in 1..n |-> GemRefactorTask(TypeName(i), pd[1][i], pd[2][i])] :
        pd \in
          { pd \in [1..n -> 1..MaxPriority] \X [1..n -> SUBSET TaskTypes] :
              /\ UsesInitialSegment(pd[1], n)
              /\ \A i \in 1..n : TypeName(i) \notin pd[2][i]
              /\ SumCard(pd[2], n) <= MaxDeps } }

\* get_default_gem_refactor_plan, its first MaxTasks tasks: the i-th task has
\* priority i, and every second task depends on the task before it
get_default_gem_refactor_plan ==
    [i \in 1..MaxTasks |->
       GemRefactorTask(TypeName(i), i, IF i % 2 = 0 THEN {TypeName(i - 1)} ELSE {})]

\* run_targeted_refactor: the tasks of the default plan whose type is a focus area
focused_tasks(focus_areas) ==
    SelectSeq(get_default_gem_refactor_plan,
              LAMBDA task : task.task_type \in focus_areas)

\* the plans run_targeted_refactor hands to run_gem_refactor_plan (without
\* a match it returns before)
TargetedPlans ==
    { focused_tasks(focus_areas) :
        focus_areas \in { f \in SUBSET TaskTypes : focused_tasks(f) # <<>> } }

----------------------------------------------------------------------------
(* sorted(tasks, key=lambda t: t.priority): Python's sort is stable. *)

\* a sort that is not stable: the new task goes before the tasks of its priority
RECURSIVE InsertByPriorityUnstable(_, _)
InsertByPriorityUnstable(s, t) ==
    IF s = <<>> THEN <<t>>
    ELSE IF s[Len(s)].priority < t.priority THEN Append(s, t)
    ELSE Append(InsertByPriorityUnstable(SubSeq(s, 1, Len(s) - 1), t), s[Len(s)])

RECURSIVE InsertByPriority(_, _)
InsertByPriority(s, t) ==
    IF s = <<>> THEN <<t>>
    ELSE IF s[Len(s)].priority <= t.priority THEN Append(s, t)
    ELSE Append(InsertByPriority(SubSeq(s, 1, Len(s) - 1), t), s[Len(s)])

RECURSIVE SortedByPriority(_)
SortedByPriority(s) ==
    IF s = <<>> THEN <<>>
    ELSE InsertByPriority(SortedByPriority(SubSeq(s, 1, Len(s) - 1)), s[Len(s)])

----------------------------------------------------------------------------
(* Model replies.  A reply is the sequence of its lines after line.strip(); *)
(* a line is its marker (the prefix startswith() tests), the trimmed        *)
(* remainder, and, for a PARAMS: line, what json.loads makes of the         *)
(* remainder.                                                               *)

\* the values a reply gives to file_path or dir_path; the workspace root is /tmp/ws
RelativePath == "lib/observable.rb"
InsideAbsolutePath == "/tmp/ws/lib/observable.rb"
OutsidePath == "/etc/passwd"
\* a relative path that leaves the root, and an absolute path of a sibling
\* directory whose name begins with the name of the root
EscapingPath == "../ws-evil/a.txt"
SiblingPath == "/tmp/ws-evil/a.txt"

\* the values a reply gives to `content`
UnixContent == "a\nb"
CarriageReturnContent == "a\r\nb"
DefaultContent == "x"

\* the root the task has validated, and a root a reply gives as workspace_dir
ValidatedRoot == "/tmp/ws"
SuppliedRoot == "/etc"

NoJson ==
    [kind |-> "none", keys |-> {}, path |-> None, content |-> None, root |-> None]
InvalidJson ==
    [kind |-> "invalid", keys |-> {}, path |-> None, content |-> None, root |-> None]
\* an object whose file_path or dir_path, if it has one, is `path`, and whose
\* content, if it has one, is `content`
JsonObjectWith(keys, path, content) ==
    [kind |-> "object", keys |-> keys,
     path |-> IF keys \cap {"file_path", "dir_path"} = {} THEN None ELSE path,
     content |-> IF "content" \in keys THEN content ELSE None,
     root |-> IF "workspace_dir" \in keys THEN SuppliedRoot ELSE None]
JsonObjectAt(keys, path) == JsonObjectWith(keys, path, DefaultContent)
JsonObject(keys) == JsonObjectAt(keys, RelativePath)
JsonArray ==
    [kind |-> "array", keys |-> {}, path |-> None, content |-> None, root |-> None]

Line(tag, rest) == [tag |-> tag, rest |-> rest, json |-> NoJson]
ParamsLine(rest, json) == [tag |-> "PARAMS:", rest |-> rest, json |-> json]

PlainReply ==
    << Line("ACTION:", "read_file"),
       ParamsLine("{\"file_path\": \"lib/observable.rb\"}", JsonObject({"file_path"})),
       Line("REASONING:", "inspect the entry point") >>
UnknownToolReply ==
    << Line("ACTION:", "delete_file"),
       ParamsLine("{\"file_path\": \"lib/observable.rb\"}", JsonObject({"file_path"})) >>
MissingParamReply ==
    << Line("ACTION:", "read_file"),
       ParamsLine("{file_path: lib}", InvalidJson) >>
ExtraParamReply ==
    << Line("ACTION:", "list_directory"),
       ParamsLine("{\"dir_path\": \"lib\", \"recursive\": true}",
                  JsonObject({"dir_path", "recursive"})) >>
ArrayParamsReply ==
    << Line("ACTION:", "list_directory"),
       ParamsLine("[\"lib\"]", JsonArray) >>
NoActionReply ==
    << Line("", "I will start by looking at the code.") >>
DoneReply ==
    << Line("ACTION:", "run_command"),
       ParamsLine("{\"command\": \"bundle exec rake test\"}", JsonObject({"command"})),
       Line("", "Refactoring Complete!") >>
DoneUnknownToolReply ==
    << Line("ACTION:", "finish"),
       Line("REASONING:", "ALL CHANGES APPLIED") >>
DoneNoActionReply ==
    << Line("", "Task complete.") >>
UnknownToolArrayReply ==
    << Line("ACTION:", "delete_file"),
       ParamsLine("[\"lib/observable.rb\"]", JsonArray) >>
EmptyActionReply ==
    << Line("ACTION:", ""),
       ParamsLine("{\"file_path\": \"lib/observable.rb\"}", JsonObject({"file_path"})) >>
TwoActionsReply ==
    << Line("ACTION:", "write_file"),
       Line("REASONING:", "rewrite the entry point"),
       Line("ACTION:", "read_file"),
       ParamsLine("{\"file_path\": \"lib/observable.rb\"}", JsonObject({"file_path"})),
       Line("REASONING:", "read it first") >>
ReasoningFirstReply ==
    << Line("REASONING:", "look around first"),
       Line("ACTION:", "analyze_gem_structure"),
       Line("ACTION:", "list_directory") >>
InvalidJsonListReply ==
    << Line("ACTION:", "list_directory"),
       ParamsLine("{dir_path: lib}", InvalidJson) >>
OutsideReadReply ==
    << Line("ACTION:", "read_file"),
       ParamsLine("{\"file_path\": \"/etc/passwd\"}",
                  JsonObjectAt({"file_path"}, OutsidePath)) >>
OutsideWriteReply ==
    << Line("ACTION:", "write_file"),
       ParamsLine("{\"file_path\": \"/etc/passwd\", \"content\": \"x\"}",
                  JsonObjectAt({"file_path", "content"}, OutsidePath)) >>
OutsideListReply ==
    << Line("ACTION:", "list_directory"),
       ParamsLine("{\"dir_path\": \"/etc/passwd\"}",
                  JsonObjectAt({"dir_path"}, OutsidePath)) >>
InsideAbsoluteReply ==
    << Line("ACTION:", "read_file"),
       ParamsLine("{\"file_path\": \"/tmp/ws/lib/observable.rb\"}",
                  JsonObjectAt({"file_path"}, InsideAbsolutePath)) >>
EscapingReadReply ==
    << Line("ACTION:", "read_file"),
       ParamsLine("{\"file_path\": \"../ws-evil/a.txt\"}",
                  JsonObjectAt({"file_path"}, EscapingPath)) >>
SiblingWriteReply ==
    << Line("ACTION:", "write_file"),
       ParamsLine("{\"file_path\": \"/tmp/ws-evil/a.txt\", \"content\": \"x\"}",
                  JsonObjectAt({"file_path", "content"}, SiblingPath)) >>
WriteReply ==
    << Line("ACTION:", "write_file"),
       ParamsLine("{\"file_path\": \"lib/observable.rb\", \"content\": \"a\\nb\"}",
                  JsonObjectWith({"file_path", "content"}, RelativePath, UnixContent)) >>
WriteCarriageReturnReply ==
    << Line("ACTION:", "write_file"),
       ParamsLine("{\"file_path\": \"lib/observable.rb\", \"content\": \"a\\r\\nb\"}",
                  JsonObjectWith({"file_path", "content"}, RelativePath,
                                 CarriageReturnContent)) >>
StaleParamsReply ==
    << Line("ACTION:", "read_file"),
       ParamsLine("{\"file_path\": \"lib/observable.rb\"}", JsonObject({"file_path"})),
       Line("ACTION:", "analyze_ruby_code") >>
SuppliedRootReply ==
    << Line("ACTION:", "list_directory"),
       ParamsLine("{\"dir_path\": \"lib\", \"workspace_dir\": \"/etc\"}",
                  JsonObject({"dir_path", "workspace_dir"})) >>
ParamsFirstReply ==
    << ParamsLine("{\"dir_path\": \"lib\"}", JsonObject({"dir_path"})),
       Line("REASONING:", "the parameters come first"),
       Line("ACTION:", "list_directory") >>
ValidThenInvalidReply ==
    << Line("ACTION:", "list_directory"),
       ParamsLine("{\"dir_path\": \"lib\"}", JsonObject({"dir_path"})),
       ParamsLine("{dir_path: lib}", InvalidJson) >>

Replies ==
    { PlainReply, UnknownToolReply, MissingParamReply, ExtraParamReply,
      ArrayParamsReply, NoActionReply, DoneReply, DoneUnknownToolReply,
      DoneNoActionReply, UnknownToolArrayReply, EmptyActionReply,
      TwoActionsReply, ReasoningFirstReply, InvalidJsonListReply,
      OutsideReadReply, OutsideWriteReply, OutsideListReply,
      InsideAbsoluteReply, EscapingReadReply, SiblingWriteReply,
      WriteReply, WriteCarriageReturnReply, StaleParamsReply,
      SuppliedRootReply, ParamsFirstReply, ValidThenInvalidReply }

\* the replies a run may hold any number of; of the others it holds at most
\* MaxOdd, each the first or the second reply to the task of a one-task plan
UsualReplies == {PlainReply, NoActionReply, DoneReply}

\* the text is compared as it stands
LowerOmitted(s) == s

\* str.lower() on the remainders the replies use
Lower(s) ==
    CASE s = "Refactoring Complete!" -> "refactoring complete!"
      [] s = "ALL CHANGES APPLIED" -> "all changes applied"
      [] s = "Task complete." -> "task complete."
      [] s = "I will start by looking at the code." -> "i will start by looking at the code."
      [] OTHER -> s

completion_indicators ==
    {"refactoring complete", "task complete", "mission accomplished",
     "all changes applied"}

\* `indicator in text` for the lower-cased remainders the replies use
IsSubstring(indicator, text) ==
    \/ indicator = "refactoring complete" /\ text = "refactoring complete!"
    \/ indicator = "task complete" /\ text = "task complete."
    \/ indicator = "all changes applied" /\ text = "all changes applied"

\* any(indicator in ai_response.lower() for indicator in completion_indicators)
SeemsComplete(reply) ==
    \E indicator \in completion_indicators :
        \E i \in 1..Len(reply) : IsSubstring(indicator, Lower(reply[i].rest))

----------------------------------------------------------------------------
(* The tool registry of RefactoringAgent.__init__ and the signatures of     *)
(* the execute methods: the keyword parameters without a default, and all   *)
(* keyword parameters.                                                      *)

RegisteredTools ==
    {"read_file", "write_file", "list_directory", "run_command",
     "analyze_ruby_code", "analyze_gem_structure"}

RequiredParams(tool) ==
    CASE tool = "read_file" -> {"file_path"}
      [] tool = "write_file" -> {"file_path", "content"}
      [] tool = "list_directory" -> {}
      [] tool = "run_command" -> {"command"}
      [] tool = "analyze_ruby_code" -> {"file_path"}
      [] tool = "analyze_gem_structure" -> {}

AcceptedParams(tool) ==
    CASE tool = "read_file" -> {"file_path", "workspace_dir"}
      [] tool = "write_file" -> {"file_path", "content", "workspace_dir"}
      [] tool = "list_directory" -> {"dir_path", "workspace_dir"}
      [] tool = "run_command" -> {"command", "workspace_dir"}
      [] tool = "analyze_ruby_code" -> {"file_path", "workspace_dir"}
      [] tool = "analyze_gem_structure" -> {"workspace_dir"}

\* os.path.isabs(path)
IsAbsolute(path) == path \in {InsideAbsolutePath, OutsidePath, SiblingPath}

\* the prefix test passes for every path
HasRootPrefixAlways(path) == TRUE

\* path.startswith(os.path.abspath(workspace_dir)): a comparison of strings,
\* "/tmp/ws-evil/a.txt" begins with "/tmp/ws"
HasRootPrefix(path) == path \in {InsideAbsolutePath, SiblingPath}

\* the tools whose execute begins with the absolute-path test (lines 119-126, 189-196)
PrefixCheckingTools == {"read_file", "write_file"}

\* the tool returns "Access denied" before it resolves the path
AccessDenied(tool, path) ==
    /\ tool \in PrefixCheckingTools
    /\ IsAbsolute(path)
    /\ ~HasRootPrefix(path)

\* os.path.abspath(os.path.join(workspace_dir, path)) lies under the root:
\* join gives `path` itself when `path` is absolute, abspath resolves ".."
LiesInWorkspace(path) == path \in {RelativePath, InsideAbsolutePath}

\* the resolved path is that of lib/observable.rb in the workspace
IsEntryPoint(path) == path \in {RelativePath, InsideAbsolutePath}

\* where the path the tool opens lies; a tool that is given no path works on
\* the root
TargetOf(tool, path) ==
    IF path # None /\ ~LiesInWorkspace(path)
    THEN "outside workspace" ELSE "workspace"

\* what open(full_path, 'r') gives for what was written: the text mode reads
\* "\r\n" as "\n" (and open(full_path, 'w') writes "\n" as os.linesep, which
\* is "\n" where the workspace root is /tmp/ws)
UniversalNewlines(content) ==
    IF content = CarriageReturnContent THEN UnixContent ELSE content

\* the content of a file that this run has not written
OriginalContent == "<original content>"

AccessDeniedError == "Access denied: file is outside workspace directory"
UnknownToolError == "Unknown tool"
ToolError == "tool error"
TimeoutError == "Command timed out after 60 seconds"

\* the call execute(**params) binds its arguments (else Python raises TypeError)
BindsArguments(tool, keys) ==
    /\ RequiredParams(tool) \subseteq keys
    /\ keys \subseteq AcceptedParams(tool)

----------------------------------------------------------------------------
(* _parse_and_execute_action, first half: the scan of the lines. *)

\* the parameters of the previous reply's action are the starting value
ParseInitCarriesOver ==
    [action_found |-> FALSE, tool_name |-> None,
     params |-> JsonObject(action_result.params \ {"workspace_dir"}),
     reasoning |-> ""]

\* lines 816-819
ParseInit ==
    [action_found |-> FALSE, tool_name |-> None,
     params |-> JsonObject({}), reasoning |-> ""]

\* the JSON error is not caught: what is not valid JSON stays what it is
LoadParamsUnguarded(line) == line.json

\* json.loads(params_str), with `except json.JSONDecodeError: params = {}`
LoadParams(line) ==
    IF line.json.kind = "invalid" THEN JsonObject({}) ELSE line.json

\* the first ACTION: line wins
ParseLineFirstWins(st, line) ==
    IF line.tag = "ACTION:"
    THEN IF st.action_found THEN st
         ELSE [st EXCEPT !.tool_name = line.rest, !.action_found = TRUE]
    ELSE IF line.tag = "PARAMS:" /\ st.action_found
    THEN [st EXCEPT !.params = LoadParams(line)]
    ELSE IF line.tag = "REASONING:" /\ st.action_found
    THEN [st EXCEPT !.reasoning = line.rest]
    ELSE st

\* a PARAMS: line is read wherever it stands
ParseLineParamsAnywhere(st, line) ==
    IF line.tag = "ACTION:"
    THEN [st EXCEPT !.tool_name = line.rest, !.action_found = TRUE]
    ELSE IF line.tag = "PARAMS:"
    THEN [st EXCEPT !.params = LoadParams(line)]
    ELSE IF line.tag = "REASONING:" /\ st.action_found
    THEN [st EXCEPT !.reasoning = line.rest]
    ELSE st

\* lines 821-837
ParseLine(st, line) ==
    IF line.tag = "ACTION:"
    THEN [st EXCEPT !.tool_name = line.rest, !.action_found = TRUE]
    ELSE IF line.tag = "PARAMS:" /\ st.action_found
    THEN [st EXCEPT !.params = LoadParams(line)]
    ELSE IF line.tag = "REASONING:" /\ st.action_found
    THEN [st EXCEPT !.reasoning = line.rest]
    ELSE st

RECURSIVE ParseLines(_, _)
ParseLines(st, lines) ==
    IF lines = <<>> THEN st
    ELSE ParseLines(ParseLine(st, Head(lines)), Tail(lines))

Parsed(reply) == ParseLines(ParseInit, reply)

\* `if action_found:`, whatever the tool name
HasActionAnyName(reply) == Parsed(reply).action_found

\* `if action_found and tool_name:`
HasAction(reply) ==
    LET st == Parsed(reply)
    IN  st.action_found /\ st.tool_name # None /\ st.tool_name # ""

(* _parse_and_execute_action, second half: injection of workspace_dir and   *)
(* the call of the tool.  The outcomes are "none" (returns None), "raise"   *)
(* (an exception leaves the method) and "result" (a dict is returned).      *)

\* params['workspace_dir'] = workspace_dir raises TypeError unless params is a dict
InjectionRaises(reply) == Parsed(reply).params.kind # "object"

InjectedKeys(reply) == Parsed(reply).params.keys \cup {"workspace_dir"}

\* the root is set only where the reply gives none
InjectedRootKeepsSupplied(reply) ==
    IF Parsed(reply).params.root # None
    THEN Parsed(reply).params.root ELSE ValidatedRoot

\* the value of params['workspace_dir'] after the assignment of line 843:
\* validated_workspace is never empty, so `if workspace_dir:` holds
InjectedRoot(reply) == ValidatedRoot

DispatchOutcome(reply) ==
    LET st == Parsed(reply)
    IN  IF ~HasAction(reply) THEN "none"
        ELSE IF InjectionRaises(reply) THEN "raise"
        ELSE IF st.tool_name \notin RegisteredTools THEN "result"
        ELSE IF BindsArguments(st.tool_name, InjectedKeys(reply)) THEN "result"
        ELSE "raise"

\* the tool is called and gets as far as the file system
ReachesFileSystem(reply) ==
    LET st == Parsed(reply)
    IN  /\ st.tool_name \in RegisteredTools
        /\ ~AccessDenied(st.tool_name, st.params.path)

\* the call reaches RunCommandTool.execute
RunsCommand(reply) == Parsed(reply).tool_name = "run_command"

\* RunCommandTool.execute: os.chdir(workspace_dir) before the command, and
\* os.chdir(original_cwd) after subprocess.run has returned (lines 307-309);
\* the handlers of TimeoutExpired and of Exception (lines 319-330) return
\* without it
CwdAfter(timed_out) == IF timed_out THEN "workspace" ELSE cwd

\* the dict the method returns; tool_ok is what the file system lets the tool
\* do; `touched` is where the tool opened, listed, wrote or ran something
ActionResult(reply, tool_ok) ==
    LET st == Parsed(reply)
        known == st.tool_name \in RegisteredTools
        denied == known /\ AccessDenied(st.tool_name, st.params.path)
        reads == st.tool_name = "read_file" /\ ~denied /\ tool_ok
    IN  [action |-> st.tool_name,
         params |-> InjectedKeys(reply),
         reasoning |-> st.reasoning,
         success |-> known /\ ~denied /\ tool_ok,
         executed |-> known,
         error |-> IF ~known THEN UnknownToolError
                   ELSE IF denied THEN AccessDeniedError
                   ELSE IF ~tool_ok THEN ToolError ELSE NoKey,
         available_tools |-> IF known THEN {} ELSE RegisteredTools,
         touched |-> IF known /\ ~denied
                     THEN TargetOf(st.tool_name, st.params.path) ELSE None,
         content |-> IF ~reads THEN NoKey
                     ELSE IF IsEntryPoint(st.params.path) /\ disk # None
                     THEN UniversalNewlines(disk)
                     ELSE OriginalContent,
         root |-> IF known THEN InjectedRoot(reply) ELSE None]

\* what lib/observable.rb holds after the tool has returned: write_file
\* replaces it with `content`
DiskAfter(reply, tool_ok) ==
    LET st == Parsed(reply)
    IN  IF /\ st.tool_name = "write_file"
           /\ ~AccessDenied(st.tool_name, st.params.path)
           /\ IsEntryPoint(st.params.path)
           /\ tool_ok
        THEN st.params.content ELSE disk

NoActionResult ==
    [action |-> None, params |-> {}, reasoning |-> "", success |-> FALSE,
     executed |-> FALSE, error |-> NoKey, available_tools |-> {},
     touched |-> None, content |-> NoKey, root |-> None]

\* the reply ends the conversation loop whatever the tool returns
EndsLoop(reply) ==
    \/ DispatchOutcome(reply) # "result"
    \/ SeemsComplete(reply)

----------------------------------------------------------------------------
(* validate_workspace_directory, by what the file system holds at the path. *)
(* A workspace is named after what is at self.workspace_dir: a directory    *)
(* that can be listed and written ("valid"), nothing ("missing"), a regular *)
(* file ("file"), a directory that cannot be listed ("unreadable"), cannot  *)
(* be written ("unwritable"), or neither ("locked").  The runner holds      *)
(* os.path.abspath(workspace_dir), which is never empty; the empty argument *)
(* "" reaches validate_workspace_directory from other callers only.         *)

WorkspaceStates ==
    {"valid", "missing", "file", "unreadable", "unwritable", "locked"}

\* os.path.exists(abs_path)
PathExists(ws) == ws # "missing"
\* os.path.isdir(abs_path)
PathIsDir(ws) == ws \notin {"missing", "file"}
\* os.listdir(abs_path) does not raise PermissionError
DirListable(ws) == ws \notin {"missing", "file", "unreadable", "locked"}
\* os.access(abs_path, os.W_OK)
DirWritable(ws) == ws \notin {"missing", "unwritable", "locked"}

\* the checks are made in a different order: writable before readable
validate_workspace_directory_reordered(ws) ==
    IF ws = "" THEN [valid |-> TRUE, error |-> NoKey, path |-> "cwd"]
    ELSE IF ~PathExists(ws)
    THEN [valid |-> FALSE, error |-> "Directory does not exist", path |-> ws]
    ELSE IF ~PathIsDir(ws)
    THEN [valid |-> FALSE, error |-> "Path is not a directory", path |-> ws]
    ELSE IF ~DirWritable(ws)
    THEN [valid |-> FALSE, error |-> "Directory not writable", path |-> ws]
    ELSE IF ~DirListable(ws)
    THEN [valid |-> FALSE, error |-> "Permission denied", path |-> ws]
    ELSE [valid |-> TRUE, error |-> NoKey, path |-> ws]

\* every workspace passes
validate_workspace_directory_skipped(ws) ==
    [valid |-> TRUE, error |-> NoKey, path |-> ws]

validate_workspace_directory(ws) ==
    IF ws = "" THEN [valid |-> TRUE, error |-> NoKey, path |-> "cwd"]
    ELSE IF ~PathExists(ws)
    THEN [valid |-> FALSE, error |-> "Directory does not exist", path |-> ws]
    ELSE IF ~PathIsDir(ws)
    THEN [valid |-> FALSE, error |-> "Path is not a directory", path |-> ws]
    ELSE IF ~DirListable(ws)
    THEN [valid |-> FALSE, error |-> "Permission denied", path |-> ws]
    ELSE IF ~DirWritable(ws)
    THEN [valid |-> FALSE, error |-> "Directory not writable", path |-> ws]
    ELSE [valid |-> TRUE, error |-> NoKey, path |-> ws]

----------------------------------------------------------------------------
(* The dicts execute_refactoring_task and _analyze_task return. *)

NoResult ==
    [success |-> FALSE, task_type |-> NoKey, actions |-> <<>>,
     iterations |-> NoKey, error |-> NoKey, dry_run |-> FALSE]

WorkspaceErrorResult(validation) ==
    [success |-> FALSE, task_type |-> NoKey, actions |-> <<>>,
     iterations |-> NoKey, error |-> validation.error, dry_run |-> FALSE]

\* the iteration count is the loop variable itself
SuccessResultZeroBased(type, actions, it) ==
    [success |-> TRUE, task_type |-> type, actions |-> actions,
     iterations |-> it, error |-> NoKey, dry_run |-> FALSE]

SuccessResult(type, actions, it) ==
    [success |-> TRUE, task_type |-> type, actions |-> actions,
     iterations |-> it + 1, error |-> NoKey, dry_run |-> FALSE]

ExceptionResult(type, actions, message) ==
    [success |-> FALSE, task_type |-> type, actions |-> actions,
     iterations |-> NoKey, error |-> message, dry_run |-> FALSE]

\* the synthesized result reports a failure
analyze_task_unsuccessful(task) ==
    [success |-> FALSE, task_type |-> task.task_type,
     actions |-> <<"Would analyze and refactor">>,
     iterations |-> NoKey, error |-> NoKey, dry_run |-> TRUE]

analyze_task(task) ==
    [success |-> TRUE, task_type |-> task.task_type,
     actions |-> <<"Would analyze and refactor">>,
     iterations |-> NoKey, error |-> NoKey, dry_run |-> TRUE]

----------------------------------------------------------------------------
(* Turns of the conversation. *)

Turn(role, kind, content, tool, marker) ==
    [role |-> role, kind |-> kind, content |-> content, tool |-> tool,
     error_marker |-> marker]

InstructionTurn == Turn("user", "instruction", <<>>, "", FALSE)
\* the reply is appended with the role of the user
AssistantTurnAsUser(reply) == Turn("user", "reply", reply, "", FALSE)
AssistantTurn(reply) == Turn("assistant", "reply", reply, "", FALSE)
\* result_message: the "**ERROR**" line is added `if not tool_result.get('success', True)`
FeedbackTurn(ar) == Turn("user", "feedback", <<>>, ar.action, ~ar.success)
NudgeTurn == Turn("user", "nudge", <<>>, "", FALSE)

----------------------------------------------------------------------------
(* The runner's helpers. *)

\* the filter `if r.get("success")` is left out
check_dependencies_any_result(dependencies, completed_results) ==
    LET completed_tasks ==
          { completed_results[i].task_type : i \in 1..Len(completed_results) }
    IN  \A dep \in dependencies : dep \in completed_tasks

\* _check_dependencies
check_dependencies(dependencies, completed_results) ==
    LET completed_tasks ==
          { completed_results[i].task_type :
              i \in { j \in 1..Len(completed_results) : completed_results[j].success } }
    IN  \A dep \in dependencies : dep \in completed_tasks

\* the dependencies are not looked at
DependenciesNotMetIgnored(task, completed_results) == FALSE

\* `if task.dependencies and not self._check_dependencies(...)`
DependenciesNotMet(task, completed_results) ==
    /\ task.dependencies # {}
    /\ ~check_dependencies(task.dependencies, completed_results)

RECURSIVE SumActions(_)
SumActions(rs) ==
    IF rs = <<>> THEN 0 ELSE Len(Head(rs).actions) + SumActions(Tail(rs))

\* total_tasks is the number of results, not of tasks
generate_summary_counts_results(rs, successful, total) ==
    [total_tasks |-> Len(rs),
     successful_tasks |-> successful,
     failed_tasks |-> Len(rs) - successful,
     success_rate |-> IF Len(rs) > 0 THEN <<successful * 100, Len(rs)>> ELSE <<0, 1>>,
     total_actions |-> SumActions(rs),
     task_results |-> rs]

\* success_rate is kept as the exact fraction <<numerator, denominator>>
generate_summary(rs, successful, total) ==
    [total_tasks |-> total,
     successful_tasks |-> successful,
     failed_tasks |-> total - successful,
     success_rate |-> IF total > 0 THEN <<successful * 100, total>> ELSE <<0, 1>>,
     total_actions |-> SumActions(rs),
     task_results |-> rs]

NoSummary == generate_summary(<<>>, 0, 0)

----------------------------------------------------------------------------
(* Initial states: a runner has been constructed and run_gem_refactor_plan  *)
(* is about to be called with a plan and a dry_run flag.  A plan of one     *)
(* task gets a provider that answers a whole conversation; a longer plan    *)
(* gets MaxCalls replies for all its tasks together.                        *)

\* no execute_refactoring_task frame exists: its locals hold nothing
AgentIdle ==
    /\ apc = "idle"
    /\ messages = <<>>
    /\ actions_taken = <<>>
    /\ iteration = 0
    /\ ai_response = <<>>
    /\ action_result = NoActionResult
    /\ task_result = NoResult
    /\ exception = None
    /\ model_calls = 0

Init ==
    /\ \/ /\ \E n \in 0..MaxTasks : tasks \in Plans(n)
          /\ dry_run \in BOOLEAN
       \/ /\ tasks \in TargetedPlans
          /\ dry_run = FALSE
    /\ workspace \in WorkspaceStates
    /\ rpc = "start"
    /\ sorted_tasks = <<>>
    /\ idx = 1
    /\ results = <<>>
    /\ successful_tasks = 0
    /\ skipped = <<>>
    /\ visited = <<>>
    /\ summary = NoSummary
    /\ saved = 0
    /\ AgentIdle
    /\ disk = None
    /\ cwd = "original"
    /\ fuel = IF Len(tasks) <= 1 THEN max_iterations ELSE MaxCalls
    /\ odd = 0

----------------------------------------------------------------------------
(* run_gem_refactor_plan *)

\* lines 180-198: sort the plan, start with no results
StartRun ==
    /\ rpc = "start"
    /\ sorted_tasks' = SortedByPriority(tasks)
    /\ results' = <<>>
    /\ successful_tasks' = 0
    /\ idx' = 1
    /\ rpc' = "loop"
    /\ UNCHANGED <<skipped, visited, summary, saved>>
    /\ UNCHANGED <<agentVars, inputVars, envVars, fuel, odd>>

\* lines 206-210: the dependencies are not met, the task is skipped
SkipTask ==
    /\ rpc = "loop"
    /\ idx <= Len(sorted_tasks)
    /\ DependenciesNotMet(sorted_tasks[idx], results)
    /\ skipped' = Append(skipped, sorted_tasks[idx].task_type)
    /\ visited' = Append(visited, sorted_tasks[idx].task_type)
    /\ idx' = idx + 1
    /\ UNCHANGED <<rpc, sorted_tasks, results, successful_tasks, summary, saved>>
    /\ UNCHANGED <<agentVars, inputVars, envVars, fuel, odd>>

\* lines 212-214 and 224-237 in a dry run
AnalyzeTask ==
    /\ rpc = "loop"
    /\ idx <= Len(sorted_tasks)
    /\ ~DependenciesNotMet(sorted_tasks[idx], results)
    /\ dry_run
    /\ results' = Append(results, analyze_task(sorted_tasks[idx]))
    /\ successful_tasks' = successful_tasks + 1
    /\ visited' = Append(visited, sorted_tasks[idx].task_type)
    /\ idx' = idx + 1
    /\ UNCHANGED <<rpc, sorted_tasks, skipped, summary, saved>>
    /\ UNCHANGED <<agentVars, inputVars, envVars, fuel, odd>>

\* lines 215-222 and execute_refactoring_task up to its first model call
\* (agent_system.py lines 555-621)
BeginTask ==
    /\ rpc = "loop"
    /\ idx <= Len(sorted_tasks)
    /\ ~DependenciesNotMet(sorted_tasks[idx], results)
    /\ ~dry_run
    /\ rpc' = "in_task"
    /\ visited' = Append(visited, sorted_tasks[idx].task_type)
    /\ model_calls' = 0
    /\ LET validation == validate_workspace_directory(workspace)
       IN  IF ~validation.valid
           THEN /\ task_result' = WorkspaceErrorResult(validation)
                /\ apc' = "returned"
                /\ UNCHANGED <<messages, actions_taken, iteration>>
           ELSE /\ messages' = <<InstructionTurn>>
                /\ actions_taken' = <<>>
                /\ iteration' = 0
                /\ apc' = "await_model"
                /\ UNCHANGED task_result
    /\ UNCHANGED <<ai_response, action_result, exception>>
    /\ UNCHANGED <<sorted_tasks, idx, results, successful_tasks, skipped, summary, saved>>
    /\ UNCHANGED <<inputVars, envVars, fuel, odd>>

\* the result is put in front of the results
TaskReturnPrepends ==
    /\ rpc = "in_task"
    /\ apc = "returned"
    /\ results' = <<task_result>> \o results
    /\ successful_tasks' =
         IF task_result.success THEN successful_tasks + 1 ELSE successful_tasks
    /\ idx' = idx + 1
    /\ rpc' = "loop"
    /\ apc' = "idle"
    /\ messages' = <<>>
    /\ actions_taken' = <<>>
    /\ iteration' = 0
    /\ ai_response' = <<>>
    /\ action_result' = NoActionResult
    /\ task_result' = NoResult
    /\ exception' = None
    /\ model_calls' = 0
    /\ UNCHANGED <<sorted_tasks, skipped, visited, summary, saved>>
    /\ UNCHANGED <<inputVars, envVars, fuel, odd>>

\* lines 224-237: the task has returned, its result is appended
TaskReturn ==
    /\ rpc = "in_task"
    /\ apc = "returned"
    /\ results' = Append(results, task_result)
    /\ successful_tasks' =
         IF task_result.success THEN successful_tasks + 1 ELSE successful_tasks
    /\ idx' = idx + 1
    /\ rpc' = "loop"
    /\ apc' = "idle"
    /\ messages' = <<>>
    /\ actions_taken' = <<>>
    /\ iteration' = 0
    /\ ai_response' = <<>>
    /\ action_result' = NoActionResult
    /\ task_result' = NoResult
    /\ exception' = None
    /\ model_calls' = 0
    /\ UNCHANGED <<sorted_tasks, skipped, visited, summary, saved>>
    /\ UNCHANGED <<inputVars, envVars, fuel, odd>>

\* lines 239-244: the loop is over; post-analysis (its tools return dicts)
\* and _generate_summary
GenerateSummary ==
    /\ rpc = "loop"
    /\ idx > Len(sorted_tasks)
    /\ summary' = generate_summary(results, successful_tasks, Len(sorted_tasks))
    /\ rpc' = "save"
    /\ UNCHANGED <<sorted_tasks, idx, results, successful_tasks, skipped, visited, saved>>
    /\ UNCHANGED <<agentVars, inputVars, envVars, fuel, odd>>

\* lines 246-249 and _save_results: results_dir.mkdir(exist_ok=True) raises
\* when the workspace directory is not there
SaveResults ==
    /\ rpc = "save"
    /\ IF PathIsDir(workspace) /\ DirWritable(workspace)
       THEN saved' = saved + 1 /\ rpc' = "done"
       ELSE saved' = saved /\ rpc' = "raised"
    /\ UNCHANGED <<sorted_tasks, idx, results, successful_tasks, skipped, visited, summary>>
    /\ UNCHANGED <<agentVars, inputVars, envVars, fuel, odd>>

----------------------------------------------------------------------------
(* execute_refactoring_task: the conversation loop *)

ProviderError == "provider error"
TypeError == "TypeError"

\* an exception leaves the try block of lines 555-687
Raise(message) ==
    /\ exception' = message
    /\ apc' = "except"

\* a task that dispatched no action returns a failure
ReturnSuccessOnlyWithActions(actions) ==
    /\ task_result' =
         IF actions = <<>>
         THEN ExceptionResult(sorted_tasks[idx].task_type, actions, "no action taken")
         ELSE SuccessResult(sorted_tasks[idx].task_type, actions, iteration)
    /\ apc' = "returned"

\* lines 680-687
ReturnSuccess(actions) ==
    /\ task_result' =
         SuccessResult(sorted_tasks[idx].task_type, actions, iteration)
    /\ apc' = "returned"

\* the loop has no cap
LoopNeverExhausted(it) == FALSE

\* the loop stops one iteration early
LoopExhaustedEarly(it) == it + 2 >= max_iterations

\* `for iteration in range(max_iterations)` has no further value
LoopExhausted(it) == it + 1 >= max_iterations

\* lines 622-638: the provider answers the call
ModelReply ==
    /\ apc = "await_model"
    /\ fuel > 0
    /\ \E reply \in Replies :
         /\ \/ reply \in UsualReplies
            \/ odd < MaxOdd /\ iteration <= 1 /\ Len(tasks) <= 1
         /\ ai_response' = reply
         /\ odd' = IF reply \in UsualReplies THEN odd ELSE odd + 1
    /\ fuel' = fuel - 1
    /\ model_calls' = model_calls + 1
    /\ apc' = "parse"
    /\ UNCHANGED <<messages, actions_taken, iteration, action_result,
                   task_result, exception>>
    /\ UNCHANGED <<runnerVars, inputVars, envVars>>

\* lines 622-638: the call raises (network, authentication, model failure)
ModelRaise ==
    /\ apc = "await_model"
    /\ model_calls' = model_calls + 1
    /\ Raise(ProviderError)
    /\ UNCHANGED <<messages, actions_taken, iteration, ai_response,
                   action_result, task_result>>
    /\ UNCHANGED <<runnerVars, inputVars, envVars, fuel, odd>>

\* line 641: _parse_and_execute_action (lines 812-868)
ParseAndExecute ==
    /\ apc = "parse"
    /\ LET outcome == DispatchOutcome(ai_response)
       IN  CASE outcome = "none" ->
                  /\ action_result' = NoActionResult
                  /\ apc' = "no_action"
                  /\ UNCHANGED <<exception, odd, envVars>>
             [] outcome = "raise" ->
                  /\ Raise(TypeError)
                  /\ UNCHANGED <<action_result, odd, envVars>>
             [] outcome = "result" ->
                  \E tool_ok, timed_out \in BOOLEAN :
                    /\ tool_ok \/ ReachesFileSystem(ai_response)
                    /\ tool_ok \/ EndsLoop(ai_response) \/ odd < MaxOdd
                    /\ timed_out => /\ ~tool_ok
                                    /\ RunsCommand(ai_response)
                                    /\ odd < MaxOdd
                    /\ action_result' =
                         IF timed_out
                         THEN [ActionResult(ai_response, FALSE)
                                 EXCEPT !.error = TimeoutError]
                         ELSE ActionResult(ai_response, tool_ok)
                    /\ disk' = DiskAfter(ai_response, tool_ok)
                    /\ cwd' = CwdAfter(timed_out)
                    /\ odd' = IF timed_out \/ (~tool_ok /\ ~EndsLoop(ai_response))
                              THEN odd + 1 ELSE odd
                    /\ apc' = "feedback"
                    /\ UNCHANGED exception
    /\ UNCHANGED <<messages, actions_taken, iteration, ai_response,
                   task_result, model_calls>>
    /\ UNCHANGED <<runnerVars, inputVars, fuel>>

\* after the feedback the previous reply is parsed and dispatched again,
\* without a model call
FeedbackRedispatches ==
    /\ apc = "feedback"
    /\ actions_taken' = Append(actions_taken, action_result.action)
    /\ messages' = messages \o <<AssistantTurn(ai_response), FeedbackTurn(action_result)>>
    /\ IF SeemsComplete(ai_response) \/ LoopExhausted(iteration)
       THEN /\ ReturnSuccess(actions_taken')
            /\ UNCHANGED iteration
       ELSE /\ iteration' = iteration + 1
            /\ apc' = "parse"
            /\ UNCHANGED task_result
    /\ UNCHANGED <<ai_response, action_result, exception, model_calls>>
    /\ UNCHANGED <<runnerVars, inputVars, envVars, fuel, odd>>

\* a tool result with success=false ends the task as a failure
FeedbackFailsTask ==
    /\ apc = "feedback"
    /\ actions_taken' = Append(actions_taken, action_result.action)
    /\ messages' = messages \o <<AssistantTurn(ai_response), FeedbackTurn(action_result)>>
    /\ IF ~action_result.success
       THEN /\ task_result' =
                 ExceptionResult(sorted_tasks[idx].task_type, actions_taken',
                                 action_result.error)
            /\ apc' = "returned"
            /\ UNCHANGED iteration
       ELSE IF SeemsComplete(ai_response) \/ LoopExhausted(iteration)
       THEN /\ ReturnSuccess(actions_taken')
            /\ UNCHANGED iteration
       ELSE /\ iteration' = iteration + 1
            /\ apc' = "await_model"
            /\ UNCHANGED task_result
    /\ UNCHANGED <<ai_response, action_result, exception, model_calls>>
    /\ UNCHANGED <<runnerVars, inputVars, envVars, fuel, odd>>

\* lines 643-664, and the end of the for loop
Feedback ==
    /\ apc = "feedback"
    /\ actions_taken' = Append(actions_taken, action_result.action)
    /\ messages' = messages \o <<AssistantTurn(ai_response), FeedbackTurn(action_result)>>
    /\ IF SeemsComplete(ai_response) \/ LoopExhausted(iteration)
       THEN /\ ReturnSuccess(actions_taken')
            /\ UNCHANGED iteration
       ELSE /\ iteration' = iteration + 1
            /\ apc' = "await_model"
            /\ UNCHANGED task_result
    /\ UNCHANGED <<ai_response, action_result, exception, model_calls>>
    /\ UNCHANGED <<runnerVars, inputVars, envVars, fuel, odd>>

\* `break` is left out: after the nudge the model is called again
NoActionRetries ==
    /\ apc = "no_action"
    /\ messages' = messages \o <<AssistantTurn(ai_response), NudgeTurn>>
    /\ IF LoopExhausted(iteration)
       THEN /\ ReturnSuccess(actions_taken)
            /\ UNCHANGED iteration
       ELSE /\ iteration' = iteration + 1
            /\ apc' = "await_model"
            /\ UNCHANGED task_result
    /\ UNCHANGED <<actions_taken, ai_response, action_result, exception, model_calls>>
    /\ UNCHANGED <<runnerVars, inputVars, envVars, fuel, odd>>

\* lines 665-678
NoAction ==
    /\ apc = "no_action"
    /\ messages' =
         IF iteration < max_iterations - 1
         THEN messages \o <<AssistantTurn(ai_response), NudgeTurn>>
         ELSE Append(messages, AssistantTurn(ai_response))
    /\ ReturnSuccess(actions_taken)
    /\ UNCHANGED <<actions_taken, iteration, ai_response, action_result,
                   exception, model_calls>>
    /\ UNCHANGED <<runnerVars, inputVars, envVars, fuel, odd>>

\* no handler: the exception leaves execute_refactoring_task and the runner
HandleExceptionPropagates ==
    /\ apc = "except"
    /\ apc' = "propagated"
    /\ UNCHANGED <<messages, actions_taken, iteration, ai_response,
                   action_result, task_result, exception, model_calls>>
    /\ UNCHANGED <<runnerVars, inputVars, envVars, fuel, odd>>

\* the handler calls the model again instead of returning
HandleExceptionRetries ==
    /\ apc = "except"
    /\ IF exception = ProviderError /\ model_calls < max_iterations
       THEN apc' = "await_model" /\ UNCHANGED task_result
       ELSE /\ task_result' =
                 ExceptionResult(sorted_tasks[idx].task_type, actions_taken, exception)
            /\ apc' = "returned"
    /\ UNCHANGED <<messages, actions_taken, iteration, ai_response,
                   action_result, exception, model_calls>>
    /\ UNCHANGED <<runnerVars, inputVars, envVars, fuel, odd>>

\* lines 689-696: `except Exception as e`
HandleException ==
    /\ apc = "except"
    /\ task_result' =
         ExceptionResult(sorted_tasks[idx].task_type, actions_taken, exception)
    /\ apc' = "returned"
    /\ UNCHANGED <<messages, actions_taken, iteration, ai_response,
                   action_result, exception, model_calls>>
    /\ UNCHANGED <<runnerVars, inputVars, envVars, fuel, odd>>

----------------------------------------------------------------------------

Next ==
    \/ StartRun
    \/ SkipTask
    \/ AnalyzeTask
    \/ BeginTask
    \/ TaskReturn
    \/ GenerateSummary
    \/ SaveResults
    \/ ModelReply
    \/ ModelRaise
    \/ ParseAndExecute
    \/ Feedback
    \/ NoAction
    \/ HandleException

Spec == Init /\ [][Next]_vars

----------------------------------------------------------------------------
(* Properties.                                                              *)

\* a result with success=true for task type `dep` is among `rs`
SucceededIn(dep, rs) ==
    \E i \in 1..Len(rs) : rs[i].success /\ rs[i].task_type = dep

\* the position at which the plan declares the task of this type
DeclaredAt(type) == CHOOSE i \in 1..Len(tasks) : tasks[i].task_type = type

SummaryReached == rpc \in {"save", "done", "raised"}

\* the replies whose lower-cased text contains a completion phrase
PhraseReplies == {DoneReply, DoneUnknownToolReply, DoneNoActionReply}

AssistantTurns == {i \in 1..Len(messages) : messages[i].role = "assistant"}

\* the assistant turns that a feedback turn follows: their reply yielded an action
AnsweredTurns ==
    {i \in AssistantTurns : i < Len(messages) /\ messages[i + 1].kind = "feedback"}

NoPhraseSeen == \A i \in AssistantTurns : messages[i].content \notin PhraseReplies

\* C1: a result is appended for a task, and the task is started, only if every
\* task type in its dependencies has a result with success=true among the
\* results appended before; a task with a dependency that has none is skipped:
\* no result is appended for it, a skip notice is printed, the loop moves on.
C1_ExecutedOnlyAfterDependencies ==
    [][ /\ (Len(results') > Len(results) \/ (rpc = "loop" /\ rpc' = "in_task"))
           => \A dep \in sorted_tasks[idx].dependencies : SucceededIn(dep, results)
        /\ ( /\ rpc = "loop"
             /\ idx <= Len(sorted_tasks)
             /\ \E dep \in sorted_tasks[idx].dependencies : ~SucceededIn(dep, results) )
           => /\ results' = results
              /\ rpc' = "loop"
              /\ skipped' = Append(skipped, sorted_tasks[idx].task_type)
              /\ idx' = idx + 1 ]_vars

\* C1 witness: a task that declares a dependency has been executed and its
\* result appended.
C1_Witness ==
    \E k \in 1..Len(results) : \E i \in 1..Len(tasks) :
        /\ tasks[i].dependencies # {}
        /\ results[k].task_type = tasks[i].task_type

\* C2 (as claimed): when a task was skipped because the result of its dependency
\* has success=false, the summary counts it in total_tasks and in neither
\* successful_tasks nor failed_tasks: failed_tasks is the number of results
\* with success=false.
C2_SkippedTaskNotCountedAsFailed ==
    ( /\ SummaryReached
      /\ \E i \in 1..Len(tasks) :
           /\ \E k \in 1..Len(skipped) : skipped[k] = tasks[i].task_type
           /\ \E dep \in tasks[i].dependencies : \E k \in 1..Len(results) :
                ~results[k].success /\ results[k].task_type = dep )
    => /\ summary.total_tasks = Len(tasks)
       /\ summary.successful_tasks =
            Cardinality({k \in 1..Len(results) : results[k].success})
       /\ summary.failed_tasks =
            Cardinality({k \in 1..Len(results) : ~results[k].success})

\* C3: the tasks are visited in ascending priority, tasks of equal priority in
\* the order of their declaration; once the run has started the order is fixed
\* and the loop only moves forward, one task at a time.
C3_VisitedInPlanOrder ==
    /\ [](\A i, j \in 1..Len(visited) :
            i < j =>
              LET a == tasks[DeclaredAt(visited[i])]
                  b == tasks[DeclaredAt(visited[j])]
              IN  \/ a.priority < b.priority
                  \/ /\ a.priority = b.priority
                     /\ DeclaredAt(visited[i]) < DeclaredAt(visited[j]))
    /\ [][ rpc # "start" =>
             /\ sorted_tasks' = sorted_tasks
             /\ \/ idx' = idx /\ visited' = visited
                \/ /\ idx' = idx + 1
                   /\ \/ visited' = visited
                      \/ visited' = Append(visited, sorted_tasks[idx].task_type)
                \/ /\ idx' = idx
                   /\ visited' = Append(visited, sorted_tasks[idx].task_type) ]_vars

\* C3 witness: the run visited the task declared second before the task
\* declared first.
C3_Witness ==
    /\ Len(tasks) = 2
    /\ Len(visited) = 2
    /\ visited[1] = tasks[2].task_type

\* C4: a task that fails does not end the run: as long as the summary step is
\* not reached the run can take a step, and when it is reached every task of
\* the plan has been visited exactly once, each either executed (one result) or
\* skipped (one notice).
C4_FailedTaskNeverAbortsRun ==
    /\ ~SummaryReached => ENABLED Next
    /\ SummaryReached =>
         /\ Len(visited) = Len(tasks)
         /\ \A i \in 1..Len(tasks) :
              Cardinality({k \in 1..Len(visited) : visited[k] = tasks[i].task_type}) = 1
         /\ Len(results) + Len(skipped) = Len(tasks)
         /\ summary.total_tasks = Len(tasks)
         /\ summary.task_results = results

\* C4 witness: the summary step is reached after a failed task was followed by
\* another executed task.
C4_Witness ==
    /\ SummaryReached
    /\ \E k \in 1..Len(results) : k < Len(results) /\ ~results[k].success

\* C5: one execute_refactoring_task invocation calls the model at most 15 times.
C5_AtMostFifteenModelCalls == model_calls <= 15

\* C5 witness: a task returned after its 15th model call.
C5_Witness == apc = "returned" /\ model_calls = 15

C7_FirstMissEndsLoop ==
    /\ [](\A i \in AssistantTurns \ AnsweredTurns :
            /\ apc = "returned"
            /\ \A j \in AssistantTurns : j <= i
            /\ task_result.success
            /\ task_result.iterations = Cardinality(AssistantTurns)
            /\ model_calls = Cardinality(AssistantTurns))
    /\ [][ apc = "no_action" =>
             /\ apc' = "returned"
             /\ model_calls' = model_calls
             /\ AssistantTurns' # AnsweredTurns' ]_vars

\* C7 witness: the loop ended on a reply without an action after an earlier
\* action, with iterations left.
C7_Witness ==
    /\ apc = "returned"
    /\ AssistantTurns # AnsweredTurns
    /\ AnsweredTurns # {}
    /\ task_result.iterations < 15
    /\ messages[Len(messages)].kind = "nudge"

C9_ProviderErrorEndsTask ==
    [][ /\ (apc = "await_model" /\ apc' = "except") =>
             /\ exception' = ProviderError
             /\ messages' = messages
             /\ actions_taken' = actions_taken
        /\ (apc = "except" /\ exception = ProviderError) =>
             /\ apc' = "returned"
             /\ ~task_result'.success
             /\ task_result'.error = ProviderError
             /\ task_result'.actions = actions_taken
             /\ model_calls' = model_calls
             /\ messages' = messages
        /\ apc = "returned" =>
             /\ apc' = "idle"
             /\ results' = Append(results, task_result) ]_vars

\* C9 witness: a task returned the provider's error after an earlier action.
C9_Witness ==
    /\ apc = "returned"
    /\ ~task_result.success
    /\ task_result.error = ProviderError
    /\ Len(task_result.actions) >= 1

\* C10 (as claimed): with a validated workspace a returned task result has
\* success=false only if a model call raised a provider exception.
C10_OnlyProviderErrorFailsTask ==
    (apc = "returned" /\ workspace = "valid" /\ ~task_result.success)
    => task_result.error = ProviderError

\* C11 (as claimed): dispatching an action never lets an exception reach the
\* conversation loop: the step that parses and dispatches a reply ends with
\* the loop holding a result (or no action), never an exception, and a
\* registered tool whose parameters do not fit its signature gives a result
\* with success=false.
C11_DispatchNeverPropagates ==
    [][ apc = "parse" =>
          /\ apc' \in {"feedback", "no_action"}
          /\ exception' = None
          /\ ( /\ apc' = "feedback"
               /\ action_result'.action \in RegisteredTools
               /\ ~( /\ RequiredParams(action_result'.action) \subseteq action_result'.params
                     /\ action_result'.params \subseteq AcceptedParams(action_result'.action) ) )
             => ~action_result'.success ]_vars

\* the lines of a reply that begin with ACTION:, by position
ActionLines(reply) == {i \in 1..Len(reply) : reply[i].tag = "ACTION:"}

\* the trimmed remainder of the last ACTION: line of a reply that has one
LastActionName(reply) ==
    reply[CHOOSE i \in ActionLines(reply) : \A j \in ActionLines(reply) : j <= i].rest

\* the REASONING: lines of a reply, by position
ReasoningLines(reply) == {i \in 1..Len(reply) : reply[i].tag = "REASONING:"}

\* the PARAMS: lines of a reply whose remainder json.loads does not accept
InvalidParamsLines(reply) ==
    {i \in 1..Len(reply) : reply[i].tag = "PARAMS:" /\ reply[i].json.kind = "invalid"}

\* C12 (as claimed): dispatching a tool name that is not in the registry never
\* raises: it gives a result with success=false that lists every registered
\* tool name, and no tool is invoked.
C12_UnknownToolListsRegistry ==
    [][ ( /\ apc = "parse"
          /\ ActionLines(ai_response) # {}
          /\ LastActionName(ai_response) # ""
          /\ LastActionName(ai_response) \notin RegisteredTools )
        => /\ apc' = "feedback"
           /\ ~action_result'.success
           /\ action_result'.available_tools = RegisteredTools
           /\ ~action_result'.executed
           /\ action_result'.touched = None ]_vars

C16_MalformedParamsNeverFailTask ==
    ( /\ apc = "returned"
      /\ workspace = "valid"
      /\ \E i \in 1..Len(ai_response) :
           ai_response[i].tag = "PARAMS:" /\ ai_response[i].json.kind = "array" )
    => task_result.success

\* the workspace passes the four checks of validate_workspace_directory
PassesAllChecks(ws) ==
    PathExists(ws) /\ PathIsDir(ws) /\ DirListable(ws) /\ DirWritable(ws)

\* the tool named by the reply is one of `tools` and its PARAMS: line gives an
\* absolute path that the workspace root does not prefix
NamesOutsidePath(reply, tools) ==
    /\ ActionLines(reply) # {}
    /\ LastActionName(reply) \in tools
    /\ \E i \in 1..Len(reply) :
         /\ reply[i].tag = "PARAMS:"
         /\ reply[i].json.kind = "object"
         /\ reply[i].json.path = OutsidePath

\* C17: a task whose workspace fails validation returns at once: success=false,
\* no actions, no conversation, no model call and no dispatch, for as long as
\* the run lasts.
C17_InvalidWorkspaceReturnsBeforeModel ==
    /\ [](~PassesAllChecks(workspace) =>
            /\ model_calls = 0
            /\ messages = <<>>
            /\ action_result = NoActionResult
            /\ apc \in {"idle", "returned"}
            /\ \A k \in 1..Len(results) :
                 \/ results[k].dry_run
                 \/ ~results[k].success /\ results[k].actions = <<>>)
    /\ [][ (rpc = "loop" /\ rpc' = "in_task" /\ ~PassesAllChecks(workspace)) =>
             /\ apc' = "returned"
             /\ ~task_result'.success
             /\ task_result'.actions = <<>>
             /\ task_result'.error # NoKey
             /\ fuel' = fuel ]_vars

\* C17 witness: a task returned its failure for a workspace that is not
\* writable, without a model call.
C17_Witness ==
    /\ workspace = "unwritable"
    /\ rpc = "in_task"
    /\ apc = "returned"
    /\ ~task_result.success
    /\ model_calls = 0

\* C18: an empty argument is valid and resolves to the current directory;
\* otherwise the verdict is valid exactly when the path exists, is a
\* directory, can be listed and can be written, the error is that of the
\* first of these checks that fails, the four errors are pairwise distinct,
\* and the task that was refused returns that error.
C18_ChecksInFixedOrder ==
    LET v == validate_workspace_directory(workspace)
    IN  /\ validate_workspace_directory("").valid
        /\ validate_workspace_directory("").path = "cwd"
        /\ v.valid <=> PassesAllChecks(workspace)
        /\ ~PathExists(workspace) => v.error = "Directory does not exist"
        /\ (PathExists(workspace) /\ ~PathIsDir(workspace))
             => v.error = "Path is not a directory"
        /\ (PathIsDir(workspace) /\ ~DirListable(workspace))
             => v.error = "Permission denied"
        /\ (PathIsDir(workspace) /\ DirListable(workspace) /\ ~DirWritable(workspace))
             => v.error = "Directory not writable"
        /\ Cardinality({ validate_workspace_directory(ws).error :
                           ws \in {"missing", "file", "unreadable", "unwritable"} }) = 4
        /\ (rpc = "in_task" /\ apc = "returned" /\ ~v.valid)
             => task_result.error = v.error

\* C18 witness: a task was refused for a directory that can be neither listed
\* nor written, with the error of the listing.
C18_Witness ==
    /\ workspace = "locked"
    /\ rpc = "in_task"
    /\ apc = "returned"
    /\ task_result.error = "Permission denied"

\* C19: read_file and write_file given an absolute path that the workspace
\* root does not prefix return success=false with the access-denied error and
\* open, create or write nothing.
C19_OutsideAbsolutePathDenied ==
    [][ (apc = "parse" /\ NamesOutsidePath(ai_response, {"read_file", "write_file"}))
        => /\ apc' = "feedback"
           /\ ~action_result'.success
           /\ action_result'.error = AccessDeniedError
           /\ action_result'.touched = None ]_vars

\* C19 witness: write_file was refused for /etc/passwd.
C19_Witness ==
    /\ apc = "feedback"
    /\ ai_response = OutsideWriteReply
    /\ ~action_result.success
    /\ action_result.error = AccessDeniedError

\* C20 (as claimed): each of read_file, write_file, list_directory and
\* analyze_ruby_code, given an absolute path that the workspace root does not
\* prefix, returns the access-denied failure and does not touch the target.
C20_EveryPathToolDeniesOutsidePath ==
    [][ ( /\ apc = "parse"
          /\ NamesOutsidePath(ai_response,
               {"read_file", "write_file", "list_directory", "analyze_ruby_code"}) )
        => /\ apc' = "feedback"
           /\ ~action_result'.success
           /\ action_result'.error = AccessDeniedError
           /\ action_result'.touched # "outside workspace" ]_vars

\* C21 (as claimed): read_file never returns the content of, and write_file
\* never creates or changes, a file outside the workspace root, whatever path
\* the reply gives: a result of one of the two tools with success=true has
\* worked inside the root.
C21_FileOperationsConfined ==
    (action_result.action \in {"read_file", "write_file"} /\ action_result.success)
    => action_result.touched = "workspace"

\* the reply reads lib/observable.rb of the workspace with read_file
ReadsEntryPoint(reply) ==
    /\ ActionLines(reply) # {}
    /\ LastActionName(reply) = "read_file"
    /\ \E i \in 1..Len(reply) :
         /\ reply[i].tag = "PARAMS:"
         /\ reply[i].json.kind = "object"
         /\ reply[i].json.path \in {RelativePath, InsideAbsolutePath}

\* C22 (as claimed): read_file of a path that write_file has written returns
\* exactly the content that was written.
C22_WriteThenReadReturnsContent ==
    [][ ( /\ apc = "parse"
          /\ disk # None
          /\ ReadsEntryPoint(ai_response)
          /\ apc' = "feedback"
          /\ action_result'.success )
        => action_result'.content = disk ]_vars

\* C23 (as claimed): run_command leaves the working directory of the process
\* as it found it, on every exit path.
C23_RunCommandRestoresCwd ==
    [][ ( /\ apc = "parse"
          /\ ActionLines(ai_response) # {}
          /\ LastActionName(ai_response) = "run_command" )
        => cwd' = cwd ]_vars

\* C24: the run is strictly sequential: a conversation exists exactly while
\* the runner waits for its one task; every task entered before has its result
\* appended or was skipped; the model calls made are those of the iterations
\* begun, one at a time; a reply is parsed and its tool dispatched only after
\* the call of that iteration has returned it, and every earlier dispatch has
\* its action recorded.
C24_StrictlySequential ==
    /\ (rpc = "in_task") <=> (apc # "idle")
    /\ Len(visited) =
         Len(results) + Len(skipped) + (IF rpc = "in_task" THEN 1 ELSE 0)
    /\ idx = Len(results) + Len(skipped) + 1
    /\ apc = "await_model" => model_calls = iteration
    /\ apc \in {"parse", "feedback", "no_action"} =>
         /\ model_calls = iteration + 1
         /\ ai_response # <<>>
         /\ Len(actions_taken) = iteration
    /\ apc = "feedback" => action_result.action = LastActionName(ai_response)

\* C24 witness: the second task of a plan dispatched the tool of its first
\* reply while the result of the first task was in the results.
C24_Witness ==
    /\ rpc = "in_task"
    /\ Len(results) = 1
    /\ Len(visited) = 2
    /\ apc = "feedback"
    /\ model_calls = 1

\* the types of the plan in the order of the loop
SortedTypes == [i \in 1..Len(sorted_tasks) |-> sorted_tasks[i].task_type]

\* the position of a type in a sequence of types that holds it
PositionIn(types, type) == CHOOSE i \in 1..Len(types) : types[i] = type

\* the task of the plan that has this type
TaskOfType(type) == sorted_tasks[PositionIn(SortedTypes, type)]

\* the types the loop has visited before this one
VisitedBefore(type) ==
    {SortedTypes[j] : j \in 1..(PositionIn(SortedTypes, type) - 1)}

\* a dry run makes no model call, starts no conversation and gives every
\* task it does not skip a synthesized result with success=true
DryRunSynthesizes ==
    /\ apc = "idle"
    /\ model_calls = 0
    /\ messages = <<>>
    /\ fuel = (IF Len(tasks) <= 1 THEN max_iterations ELSE MaxCalls)
    /\ Len(visited) = Len(results) + Len(skipped)
    /\ \A k \in 1..Len(results) : results[k].success /\ results[k].dry_run

\* C25 (as claimed): in a dry run no model call is made and every task whose
\* dependencies are met gets a synthesized result with success=true, so a task
\* is skipped only if one of its dependencies is absent from the plan or
\* ordered after it.
C25_DryRunSkipsOnlyAbsentOrLater ==
    dry_run =>
      /\ DryRunSynthesizes
      /\ \A k \in 1..Len(skipped) :
           \E dep \in TaskOfType(skipped[k]).dependencies :
             \/ \A i \in 1..Len(SortedTypes) : SortedTypes[i] # dep
             \/ /\ \E i \in 1..Len(SortedTypes) : SortedTypes[i] = dep
                /\ PositionIn(SortedTypes, dep) > PositionIn(SortedTypes, skipped[k])

\* C25 (amended): in a dry run no model call is made and every task whose
\* dependencies are met gets a synthesized result with success=true; a task is
\* skipped only if one of its dependencies is absent from the plan, is not
\* ordered before it, or was itself skipped.
C25_DryRunSkipsAlsoAfterSkippedDependency ==
    dry_run =>
      /\ DryRunSynthesizes
      /\ \A k \in 1..Len(skipped) :
           \E dep \in TaskOfType(skipped[k]).dependencies :
             \/ dep \notin VisitedBefore(skipped[k])
             \/ \E j \in 1..(k - 1) : skipped[j] = dep

\* C25 witness: a dry run skipped a task whose dependency is in the plan and
\* ordered before it, because that dependency had been skipped.
C25_Witness ==
    /\ dry_run
    /\ rpc = "done"
    /\ Len(skipped) = 2
    /\ skipped[1] \in TaskOfType(skipped[2]).dependencies

\* the keys of the last PARAMS: line that follows the first ACTION: line of
\* the reply, none if there is no such line or it is not a JSON object
ParamsKeysOf(reply) ==
    LET first == CHOOSE i \in ActionLines(reply) : \A j \in ActionLines(reply) : i <= j
        after == {i \in 1..Len(reply) : reply[i].tag = "PARAMS:" /\ i > first}
    IN  IF after = {} THEN {}
        ELSE LET last == CHOOSE i \in after : \A j \in after : j <= i
             IN  IF reply[last].json.kind = "object" THEN reply[last].json.keys
                 ELSE {}

\* C26: the parameters of a dispatched action are those of the last PARAMS:
\* line of the same reply, also when a later ACTION: line names another tool,
\* and the workspace root; a reply without a PARAMS: line dispatches the
\* workspace root alone, whatever the replies before it held.
C26_ParamsKeptWithinReplyOnly ==
    [][ (apc = "parse" /\ apc' = "feedback")
        => /\ action_result'.action = LastActionName(ai_response)
           /\ action_result'.params =
                ParamsKeysOf(ai_response) \cup {"workspace_dir"} ]_vars

\* C26 witness: the parameters given for read_file were dispatched to
\* analyze_ruby_code, which a later ACTION: line of the same reply names.
C26_Witness ==
    /\ apc = "feedback"
    /\ ai_response = StaleParamsReply
    /\ action_result.action = "analyze_ruby_code"
    /\ action_result.params = {"file_path", "workspace_dir"}

\* C27 (as claimed): when a reply yields no action and iterations remain, the
\* loop appends the assistant turn and one nudge and waits for the model
\* again, the nudge being the last turn.
C27_NudgeThenModelCalledAgain ==
    [][ (apc = "no_action" /\ iteration < max_iterations - 1)
        => /\ Len(messages') = Len(messages) + 2
           /\ messages'[Len(messages')].kind = "nudge"
           /\ apc' = "await_model" ]_vars

\* C28: a tool result with success=false, that of an unknown tool included,
\* does not end the task: its feedback is appended, the model is called again
\* unless the reply holds a completion phrase or was the last iteration, and a
\* task that returns then returns success=true.
C28_FailedToolDoesNotEndTask ==
    [][ (apc = "feedback" /\ ~action_result.success)
        => /\ Len(messages') = Len(messages) + 2
           /\ messages'[Len(messages')].kind = "feedback"
           /\ apc' \in {"await_model", "returned"}
           /\ apc' = "await_model" <=>
                (~SeemsComplete(ai_response) /\ iteration + 1 < max_iterations)
           /\ apc' = "await_model" => iteration' = iteration + 1
           /\ apc' = "returned" => task_result'.success ]_vars

\* C28 witness: the model is called again after the feedback of a tool name
\* that is not registered.
C28_Witness ==
    /\ apc = "await_model"
    /\ iteration = 1
    /\ messages[3].kind = "feedback"
    /\ messages[3].error_marker
    /\ messages[3].tool \notin RegisteredTools

\* C29 (as claimed): every recognized action that is dispatched is followed by
\* exactly one feedback turn, appended directly after the assistant turn, and
\* the feedback has the ERROR marker exactly when the result has
\* success=false.
C29_EveryDispatchGetsFeedback ==
    [][ /\ ( /\ apc = "parse"
             /\ ActionLines(ai_response) # {}
             /\ LastActionName(ai_response) # "" )
           => apc' = "feedback"
        /\ apc = "feedback"
           => /\ Len(messages') = Len(messages) + 2
              /\ messages'[Len(messages) + 1].role = "assistant"
              /\ messages'[Len(messages) + 1].content = ai_response
              /\ messages'[Len(messages) + 2].role = "user"
              /\ messages'[Len(messages) + 2].kind = "feedback"
              /\ messages'[Len(messages) + 2].error_marker = ~action_result.success ]_vars

\* s is an initial part of t
IsPrefix(s, t) == Len(s) <= Len(t) /\ SubSeq(t, 1, Len(s)) = s

\* C30: the history of a task starts as the one user turn of the instruction,
\* whatever tasks ran before; it grows only by appends; its roles alternate
\* user, assistant, user, ...; at every model call its last turn is a user
\* turn.
C30_HistoryAlternatesFromInstruction ==
    /\ []( /\ messages # <<>> =>
                /\ messages[1].kind = "instruction"
                /\ \A i \in 1..Len(messages) :
                     messages[i].role = (IF i % 2 = 1 THEN "user" ELSE "assistant")
           /\ apc \in {"await_model", "parse"} =>
                /\ messages # <<>>
                /\ messages[Len(messages)].role = "user" )
    /\ [][ /\ (rpc = "loop" /\ rpc' = "in_task" /\ apc' # "returned")
              => (Len(messages') = 1 /\ messages'[1].kind = "instruction")
           /\ (rpc = "in_task" /\ rpc' = "in_task")
              => IsPrefix(messages, messages') ]_vars

\* C30 witness: the second task of a plan waits for its second reply with a
\* history of three turns, none of them from the first task.
C30_Witness ==
    /\ rpc = "in_task"
    /\ Len(results) = 1
    /\ apc = "await_model"
    /\ Len(messages) = 3
    /\ messages[3].role = "user"

\* the types of the tasks whose loop body has ended without a skip, in the
\* order of the loop
ExecutedTypes ==
    SelectSeq(SubSeq(visited, 1, idx - 1),
              LAMBDA type : \A j \in 1..Len(skipped) : skipped[j] # type)

C32_SummaryTotals ==
    SummaryReached =>
      LET successes == {k \in 1..Len(results) : results[k].success}
          all_actions ==
            UNION { {<<k, j>> : j \in 1..Len(results[k].actions)} :
                      k \in 1..Len(results) }
      IN  /\ summary.total_tasks = Len(tasks)
          /\ summary.successful_tasks = Cardinality(successes)
          /\ summary.total_actions = Cardinality(all_actions)
          /\ summary.success_rate =
               (IF Len(tasks) = 0 THEN <<0, 1>>
                ELSE <<Cardinality(successes) * 100, Len(tasks)>>)
          /\ summary.task_results = results

\* C32 witness: a plan of two tasks ended with one successful result of two
\* actions; the other task was skipped.
C32_Witness ==
    /\ rpc = "done"
    /\ summary.total_tasks = 2
    /\ summary.successful_tasks = 1
    /\ summary.total_actions = 2
    /\ Len(skipped) = 1

\* C33 (as claimed): a run that has ended has persisted exactly one report,
\* and a report is persisted only after the last task of the plan was
\* executed or skipped.
C33_ExactlyOneReportPerRun ==
    /\ rpc \in {"done", "raised"} => saved = 1
    /\ saved > 0 => idx > Len(sorted_tasks)

\* the types of the tasks skipped so far
SkippedTypes == {skipped[j] : j \in 1..Len(skipped)}

\* C34: a task one of whose dependencies is not in the plan, is not ordered
\* before it, was skipped or has no result with success=true is skipped and
\* never executed; so is a task that a targeted run selects without its
\* dependency.
C34_BlockedTaskNeverExecuted ==
    /\ \A k \in 1..Len(visited) :
         ( \E dep \in sorted_tasks[k].dependencies :
             \/ \A q \in 1..(k - 1) : sorted_tasks[q].task_type # dep
             \/ dep \in SkippedTypes
             \/ ~SucceededIn(dep, results) )
         => /\ sorted_tasks[k].task_type \in SkippedTypes
            /\ \A r \in 1..Len(results) :
                 results[r].task_type # sorted_tasks[k].task_type
            /\ ~(rpc = "in_task" /\ k = idx)
    /\ rpc = "in_task" =>
         \A dep \in sorted_tasks[idx].dependencies : SucceededIn(dep, results)

\* C34 witness: the targeted run of performance alone has ended; the task,
\* which depends on architecture, was skipped and nothing was executed.
C34_Witness ==
    /\ tasks = focused_tasks({"performance"})
    /\ rpc = "done"
    /\ skipped = <<"performance">>
    /\ results = <<>>
    /\ fuel = max_iterations

\* C35: a conversation loop that ends, with or without a completion phrase,
\* with or without a dispatched action, returns success=true for its task
\* type, and a task all of whose dependencies have such a result is not
\* skipped.
C35_NoPhraseTaskStillSucceeds ==
    [][ /\ (apc \in {"feedback", "no_action"} /\ apc' = "returned")
           => /\ task_result'.success
              /\ task_result'.task_type = sorted_tasks[idx].task_type
        /\ ( /\ rpc = "loop"
             /\ idx <= Len(sorted_tasks)
             /\ \A dep \in sorted_tasks[idx].dependencies :
                  \E k \in 1..Len(results) :
                    results[k].task_type = dep /\ results[k].success )
           => skipped' = skipped ]_vars

\* C35 witness: the second task runs although the first, on which it depends,
\* ended on its first reply without an action and without a completion phrase.
C35_Witness ==
    /\ rpc = "in_task"
    /\ Len(results) = 1
    /\ results[1].success
    /\ results[1].actions = <<>>
    /\ ~results[1].dry_run
    /\ sorted_tasks[2].dependencies = {results[1].task_type}
    /\ apc = "await_model"

\* C36: in a returned result with success=true the iteration count is the
\* number of model calls made, between 1 and 15; the actions are the tool
\* names of the replies that yielded an action, in order; there are as many as
\* iterations if the last reply yielded an action and one less if it did not.
C36_IterationsCountModelCalls ==
    (apc = "returned" /\ task_result.success) =>
      /\ task_result.iterations = model_calls
      /\ task_result.iterations \in 1..max_iterations
      /\ Len(task_result.actions) =
           Cardinality({i \in 1..Len(messages) : messages[i].kind = "feedback"})
      /\ \A k \in 1..Len(task_result.actions) :
           /\ messages[2 * k].role = "assistant"
           /\ LastActionName(messages[2 * k].content) = task_result.actions[k]
           /\ messages[2 * k + 1].kind = "feedback"
      /\ Len(task_result.actions) =
           (IF messages[Len(messages)].kind = "feedback"
            THEN task_result.iterations ELSE task_result.iterations - 1)

\* C36 witness: a task returned after three model calls with two actions: its
\* third reply yielded none.
C36_Witness ==
    /\ apc = "returned"
    /\ task_result.success
    /\ task_result.iterations = 3
    /\ Len(task_result.actions) = 2
    /\ ai_response = NoActionReply

\* C37 (as claimed): a reply whose action names a tool that is not registered
\* is handled as a dispatched action: nothing is executed, its name is
\* appended to the actions of the task, a feedback turn is appended, and the
\* loop goes on unless the reply ends it.
C37_UnregisteredToolCountsAsAction ==
    [][ /\ ( /\ apc = "parse"
             /\ ActionLines(ai_response) # {}
             /\ LastActionName(ai_response) # ""
             /\ LastActionName(ai_response) \notin RegisteredTools )
           => /\ apc' = "feedback"
              /\ action_result'.action = LastActionName(ai_response)
        /\ (apc = "feedback" /\ action_result.action \notin RegisteredTools)
           => /\ actions_taken' = Append(actions_taken, action_result.action)
              /\ messages'[Len(messages')].kind = "feedback"
              /\ \/ apc' = "await_model"
                 \/ SeemsComplete(ai_response)
                 \/ iteration + 1 >= max_iterations ]_vars

\* C38: the workspace root a tool is called with is the validated root of the
\* task, also when the PARAMS: line of the reply gives a workspace_dir of its
\* own.
C38_InjectedRootOverwritesSupplied ==
    [][ (apc = "parse" /\ apc' = "feedback" /\ action_result'.executed)
        => /\ "workspace_dir" \in action_result'.params
           /\ action_result'.root = ValidatedRoot ]_vars

\* C38 witness: list_directory was called with the validated root for a reply
\* that gives /etc as workspace_dir.
C38_Witness ==
    /\ apc = "feedback"
    /\ ai_response = SuppliedRootReply
    /\ action_result.executed
    /\ action_result.root = ValidatedRoot
    /\ action_result.touched = "workspace"

\* the lines with this marker that follow the first ACTION: line of the reply
LinesAfterFirstAction(reply, tag) ==
    {i \in 1..Len(reply) :
       /\ reply[i].tag = tag
       /\ \E a \in ActionLines(reply) : a < i}

\* the greatest member of a set of positions that is not empty
Last(positions) == CHOOSE i \in positions : \A j \in positions : j <= i

\* C39: the parameters and the reasoning of a dispatched action come from the
\* PARAMS: and REASONING: lines after the first ACTION: line only: without
\* such a line they are the empty mapping (plus the root) and the empty
\* string, and a last PARAMS: line that is not valid JSON gives the empty
\* mapping, whatever valid line came before it.
C39_OnlyLinesAfterFirstActionCount ==
    [][ (apc = "parse" /\ apc' = "feedback")
        => LET ps == LinesAfterFirstAction(ai_response, "PARAMS:")
               rs == LinesAfterFirstAction(ai_response, "REASONING:")
           IN  /\ action_result'.params =
                    (IF ps = {} THEN {}
                     ELSE IF ai_response[Last(ps)].json.kind = "invalid" THEN {}
                     ELSE ai_response[Last(ps)].json.keys) \cup {"workspace_dir"}
               /\ action_result'.reasoning =
                    (IF rs = {} THEN "" ELSE ai_response[Last(rs)].rest) ]_vars

\* C39 witness: list_directory was dispatched with the root alone and without
\* reasoning: the PARAMS: and REASONING: lines of the reply precede its
\* ACTION: line.
C39_Witness ==
    /\ apc = "feedback"
    /\ ai_response = ParamsFirstReply
    /\ action_result.action = "list_directory"
    /\ action_result.params = {"workspace_dir"}
    /\ action_result.reasoning = ""

====
